---- MODULE Spec2Model ----
(***************************************************************************)
(* A model of SNAPLib/FASTA.cpp: the FASTA loader ReadFASTAGenome, the     *)
(* writer AppendFASTAGenome and the header tag parser FindFASTATagValue.   *)
(*                                                                         *)
(* A C string is a sequence of one-character strings without its           *)
(* terminating NUL; the C index i is the TLA+ index i + 1, and a NULL      *)
(* pointer result of strchr/strstr is the index 0.                         *)
(***************************************************************************)
EXTENDS Integers, Sequences, FiniteSets, TLC

VARIABLES
    file,                           \* the FASTA file: the lines reallocatingFgets returns
    chromosomePaddingSize,          \* parameter
    chrTag,                         \* parameter: <<>> for NULL, <<name>> for a tag name
    chrMapFilename,                 \* parameter: <<>> for NULL, <<name>> for a file name
    mapFile,                        \* the chrmap file: <<>> if fopen fails, <<lines>> otherwise
    chrMap,                         \* the alias -> canonical table read from that file
    pieceNameTerminatorCharacters,  \* parameter: a string (NULL acts as the empty string)
    spaceIsAPieceNameTerminator,    \* parameter
    altMap,                         \* parameter: <<>> for NULL, <<contigs it was told of>>
    pc,                             \* where the run stands
    lineNo,                         \* lines of the parse pass read so far
    nChromosomes,                   \* result of the counting pass
    inAContig,
    warningIssued,
    messages,                       \* the WriteErrorMessage calls, in order
    bases,                          \* the genome's base buffer
    contigs,                        \* the genome's contig table
    provenance,                     \* per base: the input character it came from, or PAD
    calls,                          \* the calls made on the genome, in order
    fasta,                          \* what AppendFASTAGenome wrote
    tagLine,                        \* FindFASTATagValue on its own: lineBuffer
    tagName,                        \*   tagName
    tagResult,                      \*   its outcome
    seqLine,                        \* the normalization on its own: the line
    seqResult                       \*   its normalized form

\* what a run of the loader is given
params == <<file, chromosomePaddingSize, chrTag, chrMapFilename, mapFile,
            pieceNameTerminatorCharacters, spaceIsAPieceNameTerminator>>

loaderVars == <<params, chrMap, altMap, pc, lineNo, nChromosomes, inAContig,
                warningIssued, messages, bases, contigs, provenance, calls, fasta>>

tagVars == <<tagLine, tagName, tagResult>>

seqVars == <<seqLine, seqResult>>

vars == <<loaderVars, tagVars, seqVars>>

-----------------------------------------------------------------------------
(* Bounds of the model. *)

MaxLines == 3

MaxPadding == 1

MaxHeaderLen == 7

MaxSeqLen == 2

MaxNameLen == 3

-----------------------------------------------------------------------------
(* C strings. *)

NUL == "NUL"

LF == "\n"

CR == "\r"

TAB == "\t"

PAD == "PAD"

Min(S) == CHOOSE x \in S : \A y \in S : x <= y

\* s[i], reading the terminating NUL at Len(s) + 1
CharAt(s, i) == IF i \in 1..Len(s) THEN s[i] ELSE NUL

\* strchr(s + from - 1, c): the index of the first c at or after index from, or 0
StrChr(s, from, c) ==
    LET hits == {i \in from..Len(s) : s[i] = c}
    IN  IF hits = {} THEN 0 ELSE Min(hits)

\* strstr(s + from - 1, t), t not empty
StrStr(s, from, t) ==
    LET hits == {i \in from..(Len(s) - Len(t) + 1) : SubSeq(s, i, i + Len(t) - 1) = t}
    IN  IF hits = {} THEN 0 ELSE Min(hits)

Repeat(c, n) == [i \in 1..n |-> c]

Range(s) == {s[i] : i \in 1..Len(s)}

\* f[1] + ... + f[n]
RECURSIVE SumOver(_, _)
SumOver(f, n) == IF n = 0 THEN 0 ELSE f[n] + SumOver(f, n - 1)

-----------------------------------------------------------------------------
(* Character normalization of a sequence line. *)

toupper(c) ==
    CASE c = "a" -> "A"
      [] c = "c" -> "C"
      [] c = "g" -> "G"
      [] c = "t" -> "T"
      [] c = "n" -> "N"
      [] c = "z" -> "Z"
      [] OTHER -> c

isValidGenomeCharacter(c) ==
    c \in {"A", "T", "C", "G", "N", "a", "t", "c", "g", "n"}

\* the character after the first loop (toupper) and the 'N' -> 'n' step
AfterNToLower(c) == IF toupper(c) = "N" THEN "n" ELSE toupper(c)

\* variant: a validity table without 'n'
NormalizeCharBadTable(c) ==
    IF AfterNToLower(c) \in {"A", "T", "C", "G"} THEN AfterNToLower(c) ELSE "N"

\* variant: the 'N' -> 'n' step after the validity check
NormalizeCharNLast(c) ==
    IF (IF isValidGenomeCharacter(toupper(c)) THEN toupper(c) ELSE "N") = "N"
    THEN "n" ELSE toupper(c)

\* one character through both loops of the non-header branch
NormalizeChar(c) ==
    IF isValidGenomeCharacter(AfterNToLower(c)) THEN AfterNToLower(c) ELSE "N"

\* *newline = 0 at the first '\n': the string ends there
TruncateNewline(line) ==
    IF StrChr(line, 1, LF) # 0 THEN SubSeq(line, 1, StrChr(line, 1, LF) - 1) ELSE line

NormalizeLine(s) == [i \in 1..Len(s) |-> NormalizeChar(s[i])]

HasInvalid(s) == \E i \in 1..Len(s) : ~isValidGenomeCharacter(AfterNToLower(s[i]))

-----------------------------------------------------------------------------
(* FindFASTATagValue. *)

\* what lies in lineBuffer beyond its terminating NUL, read as a tag value
StaleTagValues == {<< >>, <<"x">>}

\* the loop condition: the occurrence at tag is passed over
SkipOccurrence(line, name, tag) ==
    /\ CharAt(line, tag - 1) # ">"
    /\ CharAt(line, tag - 1) # "|"
    /\ CharAt(line, tag + Len(name)) # "|"

\* the do-while loop from pointer tag on: the occurrence it stops at, or 0
RECURSIVE FindTag(_, _, _)
FindTag(line, name, tag) ==
    LET next == StrStr(line, tag + 1, name)
    IN  IF next = 0 THEN 0
        ELSE IF SkipOccurrence(line, name, next) THEN FindTag(line, name, next)
        ELSE next

NotFound == [status |-> "notfound", at |-> 0, value |-> << >>]

Fatal(tag) == [status |-> "fatal", at |-> tag, value |-> << >>]

Found(tag, v) == [status |-> "found", at |-> tag, value |-> v]

\* the outcomes of FindFASTATagValue(lineBuffer, tagName, ...)
FindFASTATagValue(line, name) ==
    LET tag == FindTag(line, name, 1)
        pTagValue == tag + Len(name) + 1
        tagValueEnd == StrChr(line, pTagValue, "|")
    IN  IF tag = 0 THEN {NotFound}
        ELSE IF pTagValue > Len(line) + 1
             THEN {Fatal(tag)} \cup {Found(tag, v) : v \in StaleTagValues}
        ELSE IF tagValueEnd = 0 THEN {Fatal(tag)}
        ELSE {Found(tag, SubSeq(line, pTagValue, tagValueEnd - 1))}

-----------------------------------------------------------------------------
(* The contig name of a header line. *)

IsNull(p) == p = << >>

Deref(p) == p[1]

\* if (NULL != p && p < terminator) terminator = p
Earlier(p, terminator) == IF p # 0 /\ p < terminator THEN p ELSE terminator

\* the loop over pieceNameTerminatorCharacters from character i on
RECURSIVE TerminatorScan(_, _, _, _)
TerminatorScan(line, chars, i, terminator) ==
    IF i > Len(chars) THEN terminator
    ELSE TerminatorScan(line, chars, i + 1, Earlier(StrChr(line, 2, chars[i]), terminator))

\* variant: '\r' does not end the name
NameTerminatorNoCR(line, chars, spaceTerminates) ==
    LET t1 == TerminatorScan(line, chars, 1, Len(line) + 1)
        t2 == IF spaceTerminates
              THEN Earlier(StrChr(line, 1, TAB), Earlier(StrChr(line, 1, " "), t1))
              ELSE t1
    IN  Earlier(StrChr(line, 1, LF), t2)

NameTerminator(line, chars, spaceTerminates) ==
    LET t1 == TerminatorScan(line, chars, 1, Len(line) + 1)
        t2 == IF spaceTerminates
              THEN Earlier(StrChr(line, 1, TAB), Earlier(StrChr(line, 1, " "), t1))
              ELSE t1
    IN  Earlier(StrChr(line, 1, CR), Earlier(StrChr(line, 1, LF), t2))

\* chrName, chrNameLen when chrTag == NULL
FreeFormName(line, chars, spaceTerminates) ==
    SubSeq(line, 2, NameTerminator(line, chars, spaceTerminates) - 1)

\* chrMap.find(name): the canonical name of an alias, the name itself otherwise
Remap(map, name) == IF name \in DOMAIN map THEN map[name] ELSE name

\* the outcomes of the name resolution of a header line: Found with the name
\* handed to startContig, or Fatal
ContigNames(line, tagOpt, mapFileOpt, map, chars, spaceTerminates) ==
    IF IsNull(tagOpt)
    THEN {Found(0, FreeFormName(line, chars, spaceTerminates))}
    ELSE {IF r.status # "found" THEN Fatal(r.at)
          ELSE IF ~IsNull(mapFileOpt) THEN Found(r.at, Remap(map, r.value))
          ELSE r : r \in FindFASTATagValue(line, Deref(tagOpt))}

-----------------------------------------------------------------------------
(* The chrmap file: one canonical name and its aliases per line. *)

ChrMapDelimiters == {TAB, CR, LF}

\* strtok(lineBuffer, "\t\r\n") and its continuations from index from on:
\* the tokens of the line, each with the index it starts at
RECURSIVE Tokens(_, _)
Tokens(line, from) ==
    LET starts == {i \in from..Len(line) : line[i] \notin ChrMapDelimiters}
        s == Min(starts)
        ends == {i \in s..Len(line) : line[i] \in ChrMapDelimiters}
        e == IF ends = {} THEN Len(line) + 1 ELSE Min(ends)
    IN  IF starts = {} THEN << >>
        ELSE <<[at |-> s, text |-> SubSeq(line, s, e - 1)]>> \o Tokens(line, e + 1)

\* the token loop of one line from token k on: a token that is lineBuffer
\* itself sets chrom, any other token becomes an alias of chrom
RECURSIVE MapTokens(_, _, _, _)
MapTokens(map, chrom, tokens, k) ==
    IF k > Len(tokens) THEN map
    ELSE IF tokens[k].at = 1 THEN MapTokens(map, tokens[k].text, tokens, k + 1)
    ELSE MapTokens((tokens[k].text :> chrom) @@ map, chrom, tokens, k + 1)

\* the line loop from line k on; chrom starts as the empty string
RECURSIVE ReadChrMap(_, _, _)
ReadChrMap(map, lines, k) ==
    IF k > Len(lines) THEN map
    ELSE ReadChrMap(IF lines[k][1] = "#" THEN map
                    ELSE MapTokens(map, << >>, Tokens(lines[k], 1), 1),
                    lines, k + 1)

-----------------------------------------------------------------------------
(* The genome the loader fills: Genome's base buffer and contig table. *)

Contig(name, location) == [name |-> name, beginningLocation |-> location, length |-> 0]

\* Genome::addData: the bytes are appended to the base buffer
addData(b, data) == b \o data

\* Genome::startContig: a contig that begins at the current base count
startContig(cs, name, nBases) == Append(cs, Contig(name, nBases))

\* Genome::fillInContigLengths: from consecutive begin locations and the base count
fillInContigLengths(cs, nBases) ==
    [i \in 1..Len(cs) |->
        [cs[i] EXCEPT !.length =
            (IF i < Len(cs) THEN cs[i + 1].beginningLocation ELSE nBases)
                - cs[i].beginningLocation]]

\* Genome::getSubstring
getSubstring(b, start, size) == SubSeq(b, start + 1, start + size)

Ord(c) ==
    CASE c = TAB -> 9
      [] c = " " -> 32
      [] c = "." -> 46
      [] c = ">" -> 62
      [] c = "a" -> 97
      [] c = "b" -> 98
      [] c = "c" -> 99
      [] c = "r" -> 114
      [] c = "x" -> 120
      [] c = "|" -> 124
      [] OTHER -> 127

\* strcmp(a, b) < 0
RECURSIVE StrLess(_, _)
StrLess(a, b) ==
    IF b = << >> THEN FALSE
    ELSE IF a = << >> THEN TRUE
    ELSE IF Ord(Head(a)) # Ord(Head(b)) THEN Ord(Head(a)) < Ord(Head(b))
    ELSE StrLess(Tail(a), Tail(b))

\* Genome::sortContigsByName: the orders of the table a sort by name can leave
SortedOrders(cs) ==
    {p \in Permutations(1..Len(cs)) :
        \A i, j \in 1..Len(cs) : i < j => ~StrLess(cs[p[j]].name, cs[p[i]].name)}

Reorder(cs, p) == [i \in 1..Len(cs) |-> cs[p[i]]]

Call(op, arg) == [op |-> op, arg |-> arg]

-----------------------------------------------------------------------------
(* Inputs. *)

TagR == <<"r">>

HeaderLines ==
    { <<">", "b", LF>>,
      <<">", "r", "|", "b", "|", LF>>,
      <<">", "a", " ", "r", "|", "c", "|", CR, LF>>,
      <<">", "r", "|", "c", LF>> }

SequenceLines ==
    { <<"a", "C", "g", "T", "N", LF>>,
      <<"A", "c", "G", "t", "n", "Z", CR, LF>>,
      <<"g", CR, LF>>,
      <<LF>> }

\* a last line that the file ends in without a newline
UnterminatedLines ==
    { <<">", "r">>,
      <<"n", "z">> }

EndsWithNewline(line) == line[Len(line)] = LF

Files ==
    UNION {
        {f \in [1..n -> HeaderLines \cup SequenceLines \cup UnterminatedLines] :
            \A i \in 1..(n - 1) : EndsWithNewline(f[i])} : n \in 0..MaxLines}

\* the chrmap files: aliases b and c of the canonical name a; a comment line
\* and a line that begins with a tab
ChrMapFiles ==
    { << <<"a", TAB, "b", TAB, TAB, "c", CR, LF>> >>,
      << <<"#", "x", TAB, "b", LF>>, <<TAB, "b", TAB, "c", CR, LF>> >> }

IsHeader(line) == line[1] = ">"

\* variant: a padding block one byte short
paddingBufferOneShort == Repeat("n", chromosomePaddingSize - 1)

\* variant: padding of 'N'
paddingBufferUpperCase == Repeat("N", chromosomePaddingSize)

\* variant: no padding
paddingBufferEmpty == << >>

paddingBuffer == Repeat("n", chromosomePaddingSize)

-----------------------------------------------------------------------------
(* ReadFASTAGenome and AppendFASTAGenome. *)

LoaderIdle ==
    /\ file = << >>
    /\ chromosomePaddingSize = 0
    /\ chrTag = << >>
    /\ chrMapFilename = << >>
    /\ mapFile = << >>
    /\ chrMap = << >>
    /\ pieceNameTerminatorCharacters = << >>
    /\ spaceIsAPieceNameTerminator = FALSE
    /\ altMap = << >>
    /\ pc = "idle"
    /\ lineNo = 0
    /\ nChromosomes = 0
    /\ inAContig = FALSE
    /\ warningIssued = FALSE
    /\ messages = << >>
    /\ bases = << >>
    /\ contigs = << >>
    /\ provenance = << >>
    /\ calls = << >>
    /\ fasta = << >>

Idle == /\ tagLine = << >> /\ tagName = << >> /\ tagResult = NotFound
        /\ seqLine = << >> /\ seqResult = << >>

\* the loader's locals at its entry
Entered ==
    /\ chrMap = << >>
    /\ pc = "start"
    /\ lineNo = 0
    /\ nChromosomes = 0
    /\ inAContig = FALSE
    /\ warningIssued = FALSE
    /\ messages = << >>
    /\ bases = << >>
    /\ contigs = << >>
    /\ provenance = << >>
    /\ calls = << >>
    /\ fasta = << >>

Init ==
    /\ file \in Files
    /\ chromosomePaddingSize \in 0..MaxPadding
    /\ chrTag \in {<< >>, <<TagR>>}
    /\ chrMapFilename \in {<< >>, <<"chrmap">>}
    /\ mapFile \in IF IsNull(chrMapFilename) THEN {<< >>}
                   ELSE {<< >>} \cup {<<m>> : m \in ChrMapFiles}
    /\ pieceNameTerminatorCharacters \in {<< >>, <<"|">>}
    /\ spaceIsAPieceNameTerminator \in BOOLEAN
    /\ IsNull(chrTag) \/ (pieceNameTerminatorCharacters = << >> /\ ~spaceIsAPieceNameTerminator)
    /\ altMap \in {<< >>, << << >> >>}
    /\ IsNull(altMap) \/ (IsNull(chrMapFilename) /\ pieceNameTerminatorCharacters = << >>)
    /\ IsNull(chrMapFilename)
          \/ (pieceNameTerminatorCharacters = << >> /\ ~spaceIsAPieceNameTerminator)
    /\ Entered
    /\ Idle

Message(kind, line, col) == [kind |-> kind, line |-> line, col |-> col]

\* QueryFileSize(fileName)
fileSize == SumOver([i \in 1..Len(file) |-> Len(file[i])], Len(file))

\* variant: the chrmap file is not tested for NULL and reads as empty
OpenFilesMapUnchecked ==
    /\ pc = "start"
    /\ chrMap' = IF IsNull(chrMapFilename) \/ IsNull(mapFile) THEN << >>
                 ELSE ReadChrMap(<< >>, Deref(mapFile), 1)
    /\ \E opened \in BOOLEAN :
          IF opened
          THEN pc' = "count" /\ messages' = messages
          ELSE pc' = "failed" /\ messages' = Append(messages, Message("fastaOpen", 0, 0))
    /\ UNCHANGED <<params, altMap, lineNo, nChromosomes, inAContig, warningIssued,
                   bases, contigs, provenance, calls, fasta>>
    /\ UNCHANGED <<tagVars, seqVars>>

\* the chrmap file is read, then the FASTA file is opened; either fopen can
\* fail, and the loader then returns NULL
OpenFiles ==
    /\ pc = "start"
    /\ IF ~IsNull(chrMapFilename) /\ IsNull(mapFile)
       THEN /\ messages' = Append(messages, Message("chrmapOpen", 0, 0))
            /\ pc' = "failed"
            /\ chrMap' = chrMap
       ELSE /\ chrMap' = IF IsNull(chrMapFilename) THEN << >>
                         ELSE ReadChrMap(<< >>, Deref(mapFile), 1)
            /\ \E opened \in BOOLEAN :
                  IF opened
                  THEN pc' = "count" /\ messages' = messages
                  ELSE pc' = "failed"
                       /\ messages' = Append(messages, Message("fastaOpen", 0, 0))
    /\ UNCHANGED <<params, altMap, lineNo, nChromosomes, inAContig, warningIssued,
                   bases, contigs, provenance, calls, fasta>>
    /\ UNCHANGED <<tagVars, seqVars>>

\* variant: the parse pass goes on where the counting pass ended
CountChromosomesNoRewind ==
    /\ pc = "count"
    /\ nChromosomes' = Cardinality({i \in 1..Len(file) : IsHeader(file[i])})
    /\ lineNo' = Len(file)
    /\ pc' = "parse"
    /\ UNCHANGED <<params, chrMap, altMap, inAContig, warningIssued, messages,
                   bases, contigs, provenance, calls, fasta>>
    /\ UNCHANGED <<tagVars, seqVars>>

\* the counting pass, the rewind and the construction of the genome
CountChromosomes ==
    /\ pc = "count"
    /\ nChromosomes' = Cardinality({i \in 1..Len(file) : IsHeader(file[i])})
    /\ lineNo' = 0
    /\ pc' = "parse"
    /\ UNCHANGED <<params, chrMap, altMap, inAContig, warningIssued, messages,
                   bases, contigs, provenance, calls, fasta>>
    /\ UNCHANGED <<tagVars, seqVars>>

\* variant: room for one padding block less
maxBasesOnePaddingShort == fileSize + nChromosomes * chromosomePaddingSize

\* the sizes the genome is constructed with
maxBases == fileSize + (nChromosomes + 1) * chromosomePaddingSize

maxContigs == nChromosomes + 1

lineBuffer == file[lineNo + 1]

\* altMap->addFastaContig(lineBuffer, chrName, chrNameLen)
addFastaContig(alt, line, name) ==
    IF IsNull(alt) THEN alt ELSE <<Append(Deref(alt), [line |-> line, name |-> name])>>

\* a line of the parse pass whose first character is '>'
ParseHeader ==
    /\ pc = "parse"
    /\ lineNo < Len(file)
    /\ IsHeader(lineBuffer)
    /\ lineNo' = lineNo + 1
    /\ inAContig' = TRUE
    /\ bases' = addData(bases, paddingBuffer)
    /\ provenance' = provenance \o Repeat(PAD, Len(paddingBuffer))
    /\ \E r \in ContigNames(lineBuffer, chrTag, chrMapFilename, chrMap,
                             pieceNameTerminatorCharacters, spaceIsAPieceNameTerminator) :
          IF r.status = "found"
          THEN /\ altMap' = addFastaContig(altMap, lineBuffer, r.value)
               /\ contigs' = startContig(contigs, r.value, Len(bases'))
               /\ calls' = calls \o <<Call("addData", paddingBuffer),
                                       Call("startContig", r.value)>>
               /\ messages' = messages
               /\ pc' = "parse"
          ELSE /\ altMap' = altMap
               /\ contigs' = contigs
               /\ calls' = Append(calls, Call("addData", paddingBuffer))
               /\ messages' = Append(messages, Message("tag", lineNo + 1, r.at))
               /\ pc' = "fatal"
    /\ UNCHANGED <<params, chrMap, nChromosomes, warningIssued, fasta>>
    /\ UNCHANGED <<tagVars, seqVars>>

InvalidColumns(s) == {i \in 1..Len(s) : ~isValidGenomeCharacter(AfterNToLower(s[i]))}

\* variant: the flag does not outlive the line
LineWarningsPerLine(issued, l, s) ==
    IF InvalidColumns(s) = {} THEN << >>
    ELSE <<Message("invalidBase", l, Min(InvalidColumns(s)))>>

\* the warnings the second loop emits on line l, given warningIssued
LineWarnings(issued, l, s) ==
    IF issued \/ InvalidColumns(s) = {} THEN << >>
    ELSE <<Message("invalidBase", l, Min(InvalidColumns(s)))>>

\* variant: no test of inAContig
ParseSequenceUnchecked ==
    /\ pc = "parse"
    /\ lineNo < Len(file)
    /\ ~IsHeader(file[lineNo + 1])
    /\ lineNo' = lineNo + 1
    /\ pc' = "parse"
    /\ warningIssued' = (warningIssued \/ HasInvalid(TruncateNewline(file[lineNo + 1])))
    /\ messages' = messages \o LineWarnings(warningIssued, lineNo + 1,
                                            TruncateNewline(file[lineNo + 1]))
    /\ bases' = addData(bases, NormalizeLine(TruncateNewline(file[lineNo + 1])))
    /\ provenance' = provenance \o TruncateNewline(file[lineNo + 1])
    /\ calls' = Append(calls, [op |-> "addData",
                               arg |-> NormalizeLine(TruncateNewline(file[lineNo + 1]))])
    /\ UNCHANGED <<params, chrMap, altMap, nChromosomes, inAContig, contigs, fasta>>
    /\ UNCHANGED <<tagVars, seqVars>>

\* a line of the parse pass whose first character is not '>'
ParseSequence ==
    /\ pc = "parse"
    /\ lineNo < Len(file)
    /\ ~IsHeader(lineBuffer)
    /\ lineNo' = lineNo + 1
    /\ IF ~inAContig
       THEN /\ pc' = "fatal"
            /\ messages' = Append(messages, Message("noContig", lineNo + 1, 0))
            /\ UNCHANGED <<warningIssued, bases, provenance, calls>>
       ELSE /\ pc' = "parse"
            /\ warningIssued' = (warningIssued \/ HasInvalid(TruncateNewline(lineBuffer)))
            /\ messages' = messages \o LineWarnings(warningIssued, lineNo + 1,
                                                    TruncateNewline(lineBuffer))
            /\ bases' = addData(bases, NormalizeLine(TruncateNewline(lineBuffer)))
            /\ provenance' = provenance \o TruncateNewline(lineBuffer)
            /\ calls' = Append(calls, Call("addData", NormalizeLine(TruncateNewline(lineBuffer))))
    /\ UNCHANGED <<params, chrMap, altMap, nChromosomes, inAContig, contigs, fasta>>
    /\ UNCHANGED <<tagVars, seqVars>>

\* variant: the table is sorted before the lengths are filled in
FinalizationCallsSortFirst(alt) ==
    <<Call("addData", paddingBuffer), Call("sortContigsByName", << >>)>>
        \o (IF IsNull(alt) THEN << >> ELSE <<Call("adjustAltContigs", << >>)>>)
        \o <<Call("fillInContigLengths", << >>)>>

\* the calls on the genome after the last line
FinalizationCalls(alt) ==
    <<Call("addData", paddingBuffer), Call("fillInContigLengths", << >>)>>
        \o (IF IsNull(alt) THEN << >> ELSE <<Call("adjustAltContigs", << >>)>>)
        \o <<Call("sortContigsByName", << >>)>>

\* the end of the input: the last padding and the genome's finalization
Finalize ==
    /\ pc = "parse"
    /\ lineNo = Len(file)
    /\ bases' = addData(bases, paddingBuffer)
    /\ provenance' = provenance \o Repeat(PAD, Len(paddingBuffer))
    /\ \E p \in SortedOrders(contigs) :
          contigs' = Reorder(fillInContigLengths(contigs, Len(bases')), p)
    /\ calls' = calls \o FinalizationCalls(altMap)
    /\ pc' = "loaded"
    /\ UNCHANGED <<params, chrMap, altMap, lineNo, nChromosomes, inAContig,
                   warningIssued, messages, fasta>>
    /\ UNCHANGED <<tagVars, seqVars>>

\* variant: the span of a contig begins one base late
FastaRecordLateStart(cs, b, i, prefix) ==
    LET start == cs[i].beginningLocation + 1
        end == IF i + 1 <= Len(cs) THEN cs[i + 1].beginningLocation ELSE Len(b)
        size == end - start
    IN  [prefix |-> prefix,
         name |-> cs[i].name,
         size |-> size,
         line |-> IF size >= 0 THEN getSubstring(b, start, size) ELSE << >>]

\* the record AppendFASTAGenome writes for contig i of the table
FastaRecord(cs, b, i, prefix) ==
    LET start == cs[i].beginningLocation
        end == IF i + 1 <= Len(cs) THEN cs[i + 1].beginningLocation ELSE Len(b)
        size == end - start
    IN  [prefix |-> prefix,
         name |-> cs[i].name,
         size |-> size,
         line |-> IF size >= 0 THEN getSubstring(b, start, size) ELSE << >>]

AppendFASTAGenome ==
    /\ pc = "loaded"
    /\ \E prefix \in {<< >>, <<"p">>} :
          fasta' = [i \in 1..Len(contigs) |-> FastaRecord(contigs, bases, i, prefix)]
    /\ pc' = "written"
    /\ UNCHANGED <<params, chrMap, altMap, lineNo, nChromosomes, inAContig,
                   warningIssued, messages, bases, contigs, provenance, calls>>
    /\ UNCHANGED <<tagVars, seqVars>>

Next ==
    \/ OpenFiles
    \/ CountChromosomes
    \/ ParseHeader
    \/ ParseSequence
    \/ Finalize
    \/ AppendFASTAGenome

Spec == Init /\ [][Next]_vars

-----------------------------------------------------------------------------
(* FindFASTATagValue on its own, on every short header line. *)

Strings(alphabet, n) == UNION {[1..k -> alphabet] : k \in 0..n}

TagAlphabet == {"|", "r", "x"}

TagNames == {<<"r">>, <<"r", "x">>}

TagHeaders ==
    {<<">">> \o body \o end : body \in Strings(TagAlphabet, MaxHeaderLen), end \in {<< >>, <<LF>>}}

Pending == [status |-> "pending", at |-> 0, value |-> << >>]

InitTag ==
    /\ LoaderIdle
    /\ tagLine \in TagHeaders
    /\ tagName \in TagNames
    /\ tagResult = Pending
    /\ seqLine = << >>
    /\ seqResult = << >>

CallFindFASTATagValue ==
    /\ tagResult = Pending
    /\ tagLine # << >>
    /\ tagResult' \in FindFASTATagValue(tagLine, tagName)
    /\ UNCHANGED <<tagLine, tagName, loaderVars, seqVars>>

NextTag == CallFindFASTATagValue

SpecTag == InitTag /\ [][NextTag]_vars

-----------------------------------------------------------------------------
(* The normalization of a sequence line on its own, applied twice. *)

SequenceAlphabet ==
    {"a", "A", "c", "C", "g", "G", "t", "T", "n", "N", "z", "Z", ">", " ", CR}

InitNormalize ==
    /\ LoaderIdle
    /\ tagLine = << >>
    /\ tagName = << >>
    /\ tagResult = NotFound
    /\ seqLine \in Strings(SequenceAlphabet, MaxSeqLen)
    /\ seqResult = << >>

\* the two loops of the non-header branch, on the line or on their last result
Normalize ==
    /\ Len(seqResult) < 2
    /\ seqResult' = Append(seqResult,
                           NormalizeLine(IF seqResult = << >> THEN seqLine
                                         ELSE seqResult[Len(seqResult)]))
    /\ UNCHANGED <<seqLine, loaderVars, tagVars>>

NextNormalize == Normalize

SpecNormalize == InitNormalize /\ [][NextNormalize]_vars

-----------------------------------------------------------------------------
(* The loader on every short header line, named by the free-form policy. *)

NameAlphabet == {"a", " ", TAB, "|", ">", CR}

NameHeaders ==
    {<<">">> \o body \o end : body \in Strings(NameAlphabet, MaxNameLen),
                              end \in {<< >>, <<LF>>}}

NameTerminatorSets == {<< >>, <<"|">>, <<">", "|">>}

InitName ==
    /\ file \in {<<h>> : h \in NameHeaders}
                 \cup {<<h, <<"n", "z">> >> : h \in {x \in NameHeaders : EndsWithNewline(x)}}
    /\ chromosomePaddingSize = 0
    /\ chrTag = << >>
    /\ chrMapFilename = << >>
    /\ mapFile = << >>
    /\ pieceNameTerminatorCharacters \in NameTerminatorSets
    /\ spaceIsAPieceNameTerminator \in BOOLEAN
    /\ altMap = << >>
    /\ Entered
    /\ Idle

SpecName == InitName /\ [][Next]_vars

-----------------------------------------------------------------------------
(* What the properties below speak of. *)

Completed == pc \in {"loaded", "written"}

\* a line without its line terminator, "\n" or "\r\n"
StripTerminator(line) ==
    LET noLF == IF Len(line) > 0 /\ line[Len(line)] = LF
                THEN SubSeq(line, 1, Len(line) - 1) ELSE line
    IN  IF Len(noLF) > 0 /\ noLF[Len(noLF)] = CR
        THEN SubSeq(noLF, 1, Len(noLF) - 1) ELSE noLF

SequenceCharacters ==
    SumOver([i \in 1..Len(file) |->
                IF IsHeader(file[i]) THEN 0 ELSE Len(StripTerminator(file[i]))], Len(file))

StartContigCalls == {i \in 1..Len(calls) : calls[i].op = "startContig"}

PaddingPositions == {i \in 1..Len(provenance) : provenance[i] = PAD}

-----------------------------------------------------------------------------
(* C1: after a completed load the number of bases appended is the number   *)
(* of characters of the sequence lines, line terminators not counted, plus *)
(* paddingSize * (number of contigs + 1).                                  *)
C1_TotalAppendedBases ==
    Completed =>
        Len(bases) = SequenceCharacters + chromosomePaddingSize * (Len(contigs) + 1)

(* C2: after a completed load, the paddingSize bases before every contig's *)
(* begin location are padding 'n' appended by the header step right before *)
(* its startContig call, the last paddingSize bases are a padding block    *)
(* appended after the last line, and there is no other padding.            *)
C2_PaddingBlocks ==
    Completed =>
        /\ \A k \in 1..Len(contigs) :
              /\ contigs[k].beginningLocation >= chromosomePaddingSize
              /\ \A i \in (contigs[k].beginningLocation - chromosomePaddingSize + 1)
                            ..contigs[k].beginningLocation :
                    bases[i] = "n" /\ provenance[i] = PAD
        /\ \A j \in StartContigCalls :
              j > 1 /\ calls[j - 1] = Call("addData", Repeat("n", chromosomePaddingSize))
        /\ Len(bases) >= chromosomePaddingSize
        /\ \A i \in (Len(bases) - chromosomePaddingSize + 1)..Len(bases) :
              bases[i] = "n" /\ provenance[i] = PAD
        /\ \E j \in 1..Len(calls) :
              /\ calls[j] = Call("addData", Repeat("n", chromosomePaddingSize))
              /\ \A i \in 1..(j - 1) : calls[i].op \in {"addData", "startContig"}
              /\ \A i \in (j + 1)..Len(calls) : calls[i].op \notin {"addData", "startContig"}
        /\ Cardinality(PaddingPositions) = chromosomePaddingSize * (Len(contigs) + 1)

C2_Witness ==
    /\ pc = "loaded"
    /\ chromosomePaddingSize >= 1
    /\ Len(contigs) >= 2
    /\ \E i \in 1..Len(bases) : provenance[i] # PAD /\ bases[i] = "n"

\* the k-th startContig call, in file order
StartCall(k) ==
    CHOOSE j \in StartContigCalls : Cardinality({i \in StartContigCalls : i <= j}) = k

\* the padding addData that closes the contig opened by call j
ClosingPadding(j) ==
    Min({i \in (j + 1)..Len(calls) : calls[i].op # "addData"} \cup {Len(calls) + 1}) - 1

RECURSIVE CallData(_, _)
CallData(from, to) ==
    IF from > to THEN << >> ELSE calls[from].arg \o CallData(from + 1, to)

LoadedName(k) == calls[StartCall(k)].arg

\* the normalized sequence lines appended for the k-th contig, concatenated
LoadedSequence(k) == CallData(StartCall(k) + 1, ClosingPadding(StartCall(k)) - 1)

(* C3: a load followed by AppendFASTAGenome with the empty prefix writes,  *)
(* for every loaded contig, one record with the contig's name whose        *)
(* sequence line is exactly the contig's normalized sequence.              *)
C3_RoundTrip ==
    (pc = "written" /\ \A i \in 1..Len(fasta) : fasta[i].prefix = << >>) =>
        /\ Len(fasta) = Cardinality(StartContigCalls)
        /\ \E p \in Permutations(1..Len(fasta)) :
              \A i \in 1..Len(fasta) :
                 /\ fasta[i].name = LoadedName(p[i])
                 /\ fasta[i].size >= 0
                 /\ fasta[i].line = LoadedSequence(p[i])

(* C4 as claimed: normalizing a normalized line changes nothing, whatever  *)
(* the line held.                                                          *)
C4_Idempotent ==
    Len(seqResult) = 2 => seqResult[2] = seqResult[1]

(* C4 as amended: normalizing a normalized line changes exactly its 'N's   *)
(* (the replacements of invalid characters) into 'n'; it is unchanged if   *)
(* and only if the line held no invalid character.                         *)
C4_IdempotentOnValid ==
    Len(seqResult) = 2 =>
        /\ Len(seqResult[2]) = Len(seqResult[1])
        /\ \A i \in 1..Len(seqResult[1]) :
              seqResult[2][i] = IF seqResult[1][i] = "N" THEN "n" ELSE seqResult[1][i]
        /\ (seqResult[2] = seqResult[1]) <=>
              (\A i \in 1..Len(seqLine) :
                  seqLine[i] \in {"a", "c", "g", "t", "n", "A", "C", "G", "T", "N"})

C4_Witness ==
    /\ Len(seqResult) = 2
    /\ "Z" \in Range(seqLine)
    /\ "n" \in Range(seqLine)
    /\ seqResult[2] # seqResult[1]

\* the normalization as C5 states it
ClaimedBase(c) ==
    CASE c \in {"a", "A"} -> "A"
      [] c \in {"c", "C"} -> "C"
      [] c \in {"g", "G"} -> "G"
      [] c \in {"t", "T"} -> "T"
      [] c \in {"n", "N"} -> "n"
      [] OTHER -> "N"

(* C5: every base in the sink that came from a sequence line is the        *)
(* uppercase letter of a/c/g/t, 'n' for n/N and 'N' for any other input    *)
(* character; every base is one of A, C, G, T, n, N, and an 'N' stands     *)
(* only where the input character was none of a, c, g, t, n in either case.*)
C5_NormalizedBases ==
    /\ Len(provenance) = Len(bases)
    /\ \A i \in 1..Len(bases) :
          /\ bases[i] \in {"A", "C", "G", "T", "n", "N"}
          /\ provenance[i] # PAD => bases[i] = ClaimedBase(provenance[i])
          /\ bases[i] = "N" =>
                provenance[i] \notin {PAD, "a", "c", "g", "t", "n", "A", "C", "G", "T", "N"}

C5_Witness ==
    /\ pc = "loaded"
    /\ \E i, j, k, l \in 1..Len(bases) :
          /\ provenance[i] = "Z" /\ bases[i] = "N"
          /\ provenance[j] = "N" /\ bases[j] = "n"
          /\ provenance[k] = "t" /\ bases[k] = "T"
          /\ provenance[l] = CR /\ bases[l] = "N"

\* an occurrence of the tag at index tag, preceded by '>' or '|' and followed by '|'
DelimitedBothSides(line, name, tag) ==
    /\ tag >= 2
    /\ tag + Len(name) - 1 <= Len(line)
    /\ SubSeq(line, tag, tag + Len(name) - 1) = name
    /\ CharAt(line, tag - 1) \in {">", "|"}
    /\ CharAt(line, tag + Len(name)) = "|"

FirstDelimited(line, name) ==
    LET hits == {i \in 2..Len(line) : DelimitedBothSides(line, name, i)}
    IN  IF hits = {} THEN 0 ELSE Min(hits)

\* the pipe that closes the value of the first delimited occurrence, or 0
ClosingPipe(line, name) == StrChr(line, FirstDelimited(line, name) + Len(name) + 1, "|")

DelimitedValue(line, name) ==
    SubSeq(line, FirstDelimited(line, name) + Len(name) + 1, ClosingPipe(line, name) - 1)

(* C6: FindFASTATagValue selects only an occurrence of the tag delimited   *)
(* on both sides, the first such one, and returns the text between the     *)
(* pipe after it and the next pipe; occurrences delimited on one side only *)
(* are skipped.                                                            *)
C6_TagDelimitedOnBothSides ==
    tagResult.status # "pending" =>
        /\ tagResult.status = "found" =>
              /\ FirstDelimited(tagLine, tagName) # 0
              /\ tagResult.at = FirstDelimited(tagLine, tagName)
              /\ ClosingPipe(tagLine, tagName) # 0
              /\ tagResult.value = DelimitedValue(tagLine, tagName)
        /\ (FirstDelimited(tagLine, tagName) # 0 /\ ClosingPipe(tagLine, tagName) # 0) =>
              tagResult = Found(FirstDelimited(tagLine, tagName),
                                DelimitedValue(tagLine, tagName))

TagAbsent(line, name) == FirstDelimited(line, name) = 0

TagMalformed(line, name) ==
    FirstDelimited(line, name) # 0 /\ ClosingPipe(line, name) = 0

HeadersBefore(k) == {i \in 1..(k - 1) : IsHeader(file[i])}

(* C7: FindFASTATagValue returns not-found when the header has no          *)
(* delimited occurrence of the tag and ends fatally when the delimited     *)
(* occurrence has no closing pipe; with a tag configured, a header whose   *)
(* tag is absent or malformed ends the load fatally at that header, with   *)
(* no startContig call for it and no finalization.                         *)
C7_TagErrors ==
    ~IsNull(chrTag) =>
        \A k \in 1..lineNo :
            IsHeader(file[k]) =>
                /\ TagAbsent(file[k], Deref(chrTag)) =>
                      FindFASTATagValue(file[k], Deref(chrTag)) = {NotFound}
                /\ TagMalformed(file[k], Deref(chrTag)) =>
                      \A r \in FindFASTATagValue(file[k], Deref(chrTag)) : r.status = "fatal"
                /\ (TagAbsent(file[k], Deref(chrTag)) \/ TagMalformed(file[k], Deref(chrTag))) =>
                      /\ pc = "fatal"
                      /\ lineNo = k
                      /\ Cardinality(StartContigCalls) = Cardinality(HeadersBefore(k))
                      /\ \A i \in 1..Len(calls) : calls[i].op \in {"addData", "startContig"}

\* the header line that the k-th startContig call was made for
HeaderOfContig(k) ==
    file[CHOOSE i \in 1..Len(file) :
            IsHeader(file[i]) /\ Cardinality(HeadersBefore(i)) = k - 1]

\* the raw names the configured naming policy resolves a header line to
RawNames(line) ==
    IF IsNull(chrTag)
    THEN {FreeFormName(line, pieceNameTerminatorCharacters, spaceIsAPieceNameTerminator)}
    ELSE {r.value : r \in {x \in FindFASTATagValue(line, Deref(chrTag)) : x.status = "found"}}

(* C8: with a remap table loaded, the name passed to startContig for a     *)
(* header is the canonical name if the raw name is an alias and the raw    *)
(* name otherwise, under the tag policy and under the free-form policy.    *)
C8_RemapBothPolicies ==
    ~IsNull(chrMapFilename) =>
        \A k \in 1..Cardinality(StartContigCalls) :
            \E raw \in RawNames(HeaderOfContig(k)) :
                LoadedName(k) = IF raw \in DOMAIN chrMap THEN chrMap[raw] ELSE raw

(* C9: a non-header line read before any header ends the load fatally:    *)
(* nothing of it is appended, no contig is opened and nothing is           *)
(* finalized; in every run no sequence data is appended before the first   *)
(* startContig call.                                                       *)
C9_NoDataBeforeFirstHeader ==
    /\ (lineNo >= 1 /\ ~IsHeader(file[1])) =>
          /\ pc = "fatal"
          /\ lineNo = 1
          /\ bases = << >>
          /\ contigs = << >>
          /\ calls = << >>
          /\ fasta = << >>
    /\ \A i \in 1..Len(provenance) :
          provenance[i] # PAD =>
              /\ StartContigCalls # {}
              /\ \E k \in 1..Len(contigs) : contigs[k].beginningLocation < i

C9_Witness ==
    /\ pc = "fatal"
    /\ lineNo = 1
    /\ Len(file) >= 2
    /\ ~IsHeader(file[1])
    /\ Len(TruncateNewline(file[1])) > 0
    /\ IsHeader(file[2])

NoHeaderLines == \A i \in 1..Len(file) : ~IsHeader(file[i])

OnePaddingBlockOnly ==
    /\ bases = Repeat("n", chromosomePaddingSize)
    /\ \A i \in 1..Len(provenance) : provenance[i] = PAD
    /\ Cardinality({i \in 1..Len(calls) : calls[i].op = "addData"}) = 1
    /\ contigs = << >>
    /\ StartContigCalls = {}

(* C10 as claimed: every input without header lines loads to completion,   *)
(* with exactly one padding block appended and zero contigs.               *)
C10_ZeroContigInputCompletes ==
    NoHeaderLines =>
        /\ pc # "fatal"
        /\ Completed => OnePaddingBlockOnly

(* C10 as amended: the input without any line, once opened, loads to       *)
(* completion, with exactly one padding block appended and zero contigs;   *)
(* a run that fails to open a file has read no line; an input without      *)
(* header lines that has a line ends fatally at its first line, with       *)
(* nothing appended.                                                       *)
C10_EmptyInputCompletes ==
    /\ file = << >> =>
          /\ pc \in {"start", "failed", "count", "parse", "loaded", "written"}
          /\ pc = "failed" => lineNo = 0
          /\ pc = "parse" => ENABLED Finalize
          /\ Completed => (OnePaddingBlockOnly /\ nChromosomes = 0)
    /\ (NoHeaderLines /\ file # << >>) =>
          /\ pc \in {"start", "failed", "count", "parse", "fatal"}
          /\ bases = << >>
          /\ contigs = << >>
          /\ lineNo >= 1 => (pc = "fatal" /\ lineNo = 1)

C10_Witness ==
    /\ file = << >>
    /\ pc = "loaded"
    /\ chromosomePaddingSize >= 1
    /\ bases = Repeat("n", chromosomePaddingSize)

-----------------------------------------------------------------------------
\* the sequence lines the parse pass has normalized so far
ProcessedSequenceLines ==
    IF ~inAContig THEN {} ELSE {l \in 1..lineNo : ~IsHeader(file[l])}

ClaimedInvalid(c) == c \notin {"a", "c", "g", "t", "n", "A", "C", "G", "T", "N"}

\* line and column of every invalid character of those lines
InvalidCharacters ==
    UNION {{<<l, c>> : c \in {i \in 1..Len(TruncateNewline(file[l])) :
                                 ClaimedInvalid(file[l][i])}} :
           l \in ProcessedSequenceLines}

FirstInFileOrder(S) ==
    CHOOSE x \in S : \A y \in S : x[1] < y[1] \/ (x[1] = y[1] /\ x[2] <= y[2])

Warnings == SelectSeq(messages, LAMBDA m : m.kind = "invalidBase")

-----------------------------------------------------------------------------
\* the table is still in the order of the startContig calls
InFileOrder == pc \in {"parse", "fatal"}

\* one padding block per header up to the k-th, and the bases of the contigs before it
ClaimedBegin(k) ==
    k * chromosomePaddingSize
        + SumOver([j \in 1..(k - 1) |-> Len(LoadedSequence(j))], k - 1)

(* C12 as claimed: the begin locations of the contigs are strictly         *)
(* increasing in file order, for every padding size and every contig       *)
(* content.                                                                *)
C12_StrictlyIncreasing ==
    InFileOrder =>
        \A i, j \in 1..Len(contigs) :
            i < j => contigs[i].beginningLocation < contigs[j].beginningLocation

(* C12 as amended: the begin locations are non-decreasing in file order;   *)
(* a contig begins its predecessor's bases plus one padding block after    *)
(* its predecessor, so two consecutive begin locations are equal exactly   *)
(* when paddingSize is 0 and the earlier contig has no bases.              *)
C12_NonDecreasing ==
    InFileOrder =>
        /\ \A k \in 1..Len(contigs) : contigs[k].beginningLocation = ClaimedBegin(k)
        /\ \A k \in 1..(Len(contigs) - 1) :
              /\ contigs[k].beginningLocation <= contigs[k + 1].beginningLocation
              /\ (contigs[k].beginningLocation = contigs[k + 1].beginningLocation) <=>
                    (chromosomePaddingSize = 0 /\ LoadedSequence(k) = << >>)

C12_Witness ==
    /\ pc = "parse"
    /\ lineNo = Len(file)
    /\ chromosomePaddingSize = 0
    /\ Len(contigs) = 3
    /\ contigs[1].beginningLocation = contigs[2].beginningLocation
    /\ contigs[2].beginningLocation = contigs[3].beginningLocation

-----------------------------------------------------------------------------
Counted == pc \in {"parse", "fatal", "loaded", "written"}

(* C13: in every completed load the number of startContig calls equals     *)
(* nChromosomes, the number of lines the counting pass found to begin with *)
(* '>': the parse pass reads the same lines from the first one on and      *)
(* opens one contig per such line; the number of contigs never exceeds the *)
(* capacity nChromosomes + 1 the genome was constructed with.              *)
C13_ContigsAsCounted ==
    Counted =>
        /\ nChromosomes = Cardinality({i \in 1..Len(file) : file[i][1] = ">"})
        /\ pc = "parse" =>
              Cardinality(StartContigCalls) = Cardinality(HeadersBefore(lineNo + 1))
        /\ Cardinality(StartContigCalls) <= nChromosomes
        /\ Len(contigs) = Cardinality(StartContigCalls)
        /\ Len(contigs) < maxContigs
        /\ Completed =>
              /\ lineNo = Len(file)
              /\ Cardinality(StartContigCalls) = nChromosomes

C13_Witness ==
    /\ pc = "loaded"
    /\ nChromosomes = 2
    /\ Len(file) = 3
    /\ ~IsHeader(file[2])
    /\ Cardinality(StartContigCalls) = 2

-----------------------------------------------------------------------------
\* a chrmap file is configured and fopen returns NULL for it
ChrMapUnopenable == ~IsNull(chrMapFilename) /\ IsNull(mapFile)

(* C14: when a chrmap file is configured and cannot be opened, the loader  *)
(* reports that error and returns without a genome: the process is not     *)
(* ended, and the return comes before the FASTA file is opened, before the *)
(* counting pass, before the genome is constructed and before any data is  *)
(* appended.                                                               *)
C14_UnopenableChrMapFailsEarly ==
    ChrMapUnopenable =>
        /\ pc \in {"start", "failed"}
        /\ pc = "failed" => messages = <<Message("chrmapOpen", 0, 0)>>
        /\ \A i \in 1..Len(messages) : messages[i].kind # "fastaOpen"
        /\ nChromosomes = 0
        /\ lineNo = 0
        /\ chrMap = << >>
        /\ bases = << >>
        /\ contigs = << >>
        /\ calls = << >>
        /\ fasta = << >>

C14_Witness ==
    /\ ChrMapUnopenable
    /\ pc = "failed"
    /\ Len(file) = MaxLines
    /\ \E i \in 1..Len(file) : IsHeader(file[i])
    /\ messages = <<Message("chrmapOpen", 0, 0)>>

-----------------------------------------------------------------------------
\* the bytes of the lines the parse pass has read
BytesRead == SumOver([l \in 1..lineNo |-> Len(file[l])], lineNo)

HeadersRead == Cardinality(HeadersBefore(lineNo + 1))

(* C15: from the construction of the genome on, the number of bases        *)
(* appended never exceeds fileSize + (nChromosomes + 1) * paddingSize, the *)
(* size the genome was constructed with: the bases that are not padding    *)
(* are at most the bytes of the lines read, a header line giving none, and *)
(* the padding is one block per header read and one after the last line.   *)
C15_WithinCapacity ==
    Counted =>
        /\ fileSize = SumOver([l \in 1..Len(file) |-> Len(file[l])], Len(file))
        /\ Len(bases) <= maxBases
        /\ Len(bases) - Cardinality(PaddingPositions)
              = SumOver([l \in 1..lineNo |->
                            IF l \in ProcessedSequenceLines
                            THEN Len(TruncateNewline(file[l])) ELSE 0], lineNo)
        /\ Len(bases) - Cardinality(PaddingPositions) <= BytesRead
        /\ Cardinality(PaddingPositions)
              = chromosomePaddingSize * (HeadersRead + IF Completed THEN 1 ELSE 0)
        /\ HeadersRead <= nChromosomes

C15_Witness ==
    /\ pc = "loaded"
    /\ chromosomePaddingSize >= 1
    /\ Len(file) = MaxLines
    /\ nChromosomes = 1
    /\ ~EndsWithNewline(file[Len(file)])
    /\ Len(bases) - Cardinality(PaddingPositions) = BytesRead - Len(file[1]) - 1

-----------------------------------------------------------------------------
FinalizationOps == {"fillInContigLengths", "adjustAltContigs", "sortContigsByName"}

CallsOf(op) == {i \in 1..Len(calls) : calls[i].op = op}

\* the finalization as C16 states it
ClaimedFinalization ==
    IF altMap = << >>
    THEN <<"addData", "fillInContigLengths", "sortContigsByName">>
    ELSE <<"addData", "fillInContigLengths", "adjustAltContigs", "sortContigsByName">>

(* C16: no finalization call is made before the load completes; a          *)
(* completed load has read every line and its calls end with the final     *)
(* padding append, fillInContigLengths, adjustAltContigs if and only if an *)
(* alt-contig map was given, and sortContigsByName, in that order and each *)
(* exactly once, with every append and startContig of the lines before     *)
(* them and none after.                                                    *)
C16_FinalizationOrder ==
    /\ ~Completed => \A i \in 1..Len(calls) : calls[i].op \notin FinalizationOps
    /\ Completed =>
          LET k == Len(ClaimedFinalization)
              n == Len(calls)
          IN  /\ lineNo = Len(file)
              /\ n >= k
              /\ [i \in 1..k |-> calls[n - k + i].op] = ClaimedFinalization
              /\ calls[n - k + 1].arg = Repeat("n", chromosomePaddingSize)
              /\ \A i \in 1..(n - k) : calls[i].op \in {"addData", "startContig"}
              /\ n - k = 2 * nChromosomes + Cardinality(ProcessedSequenceLines)
              /\ Cardinality(CallsOf("fillInContigLengths")) = 1
              /\ Cardinality(CallsOf("sortContigsByName")) = 1
              /\ Cardinality(CallsOf("adjustAltContigs")) = IF altMap = << >> THEN 0 ELSE 1

C16_Witness ==
    /\ pc = "written"
    /\ altMap # << >>
    /\ Len(Deref(altMap)) = 2
    /\ Len(contigs) = 2
    /\ Cardinality(ProcessedSequenceLines) = 1
    /\ calls[Len(calls) - 1].op = "adjustAltContigs"

-----------------------------------------------------------------------------
\* the fields of a chrmap line: its maximal runs of characters other than
\* tab, CR and LF, in order
RECURSIVE FieldsFrom(_, _)
FieldsFrom(line, i) ==
    IF i > Len(line) THEN << >>
    ELSE IF line[i] \in {TAB, CR, LF} THEN FieldsFrom(line, i + 1)
    ELSE LET stop == Min({j \in i..Len(line) : line[j] \in {TAB, CR, LF}}
                             \cup {Len(line) + 1})
         IN  <<SubSeq(line, i, stop - 1)>> \o FieldsFrom(line, stop)

Fields(line) == FieldsFrom(line, 1)

ChrMapLines == IF IsNull(mapFile) THEN << >> ELSE Deref(mapFile)

MappingLines == {l \in 1..Len(ChrMapLines) : ChrMapLines[l][1] # "#"}

\* line and field number of every alias
Aliases ==
    UNION {{<<l, j>> : j \in 2..Len(Fields(ChrMapLines[l]))} : l \in MappingLines}

AliasText(x) == Fields(ChrMapLines[x[1]])[x[2]]

\* no later mention of the same alias replaces this one
LastMention(x) ==
    \A y \in Aliases :
        AliasText(y) = AliasText(x) =>
            (y[1] < x[1] \/ (y[1] = x[1] /\ y[2] <= x[2]))

(* C17: once the chrmap file is read, the table holds exactly the aliases  *)
(* of its lines that do not begin with '#': on each such line the first    *)
(* token (split on tab, CR, LF) is the canonical name and every later      *)
(* token is an alias mapped to it, also when the line begins with a        *)
(* delimiter, and no alias is mapped to the empty name.                    *)
C17_RemapTable ==
    (~IsNull(chrMapFilename) /\ pc \notin {"start", "failed"}) =>
        /\ DOMAIN chrMap = {AliasText(x) : x \in Aliases}
        /\ \A x \in Aliases :
              LastMention(x) => chrMap[AliasText(x)] = Fields(ChrMapLines[x[1]])[1]
        /\ \A a \in DOMAIN chrMap : chrMap[a] # << >>

-----------------------------------------------------------------------------
\* the characters that end a free-form name
NameStops ==
    Range(pieceNameTerminatorCharacters)
        \cup (IF spaceIsAPieceNameTerminator THEN {" ", TAB} ELSE {})
        \cup {LF, CR}

\* the text right after '>' up to the first of those characters or the end
ClaimedName(line) ==
    LET stops == {i \in 2..Len(line) : line[i] \in NameStops}
    IN  SubSeq(line, 2, IF stops = {} THEN Len(line) ELSE Min(stops) - 1)

(* C18: with no tag configured, the name handed to startContig for a       *)
(* header line is the text right after '>' up to, and without, the first   *)
(* configured terminator character, the first space or tab if the flag is  *)
(* set, the first '\n' or '\r', or the end of the line, whichever comes    *)
(* first; with the flag unset spaces and tabs are part of the name.        *)
C18_FreeFormName ==
    IsNull(chrTag) =>
        /\ \A k \in 1..Cardinality(StartContigCalls) :
              LoadedName(k) = ClaimedName(HeaderOfContig(k))
        /\ pc = "parse" =>
              Cardinality(StartContigCalls) = Cardinality(HeadersBefore(lineNo + 1))
        /\ pc # "fatal" \/ ~inAContig

C18_Witness ==
    /\ pc = "loaded"
    /\ file[1] = <<">", " ", TAB, "|", LF>>
    /\ pieceNameTerminatorCharacters = <<">", "|">>
    /\ ~spaceIsAPieceNameTerminator
    /\ LoadedName(1) = <<" ", TAB>>

-----------------------------------------------------------------------------
\* the addData call of sequence line l: one call per line before it, and one
\* more per header
CallOfLine(l) == l + Cardinality(HeadersBefore(l))

(* C19: for every sequence line read inside a contig, the line terminator, *)
(* "\n" or "\r\n", is cut off before the line is normalized: the bytes     *)
(* appended are the normalized characters of the line without its          *)
(* terminator, and no terminator character is appended, turned into 'N' or *)
(* warned about.                                                           *)
C19_TerminatorStripped ==
    \A l \in ProcessedSequenceLines :
        /\ calls[CallOfLine(l)] =
              Call("addData", [i \in 1..Len(StripTerminator(file[l])) |->
                                  ClaimedBase(StripTerminator(file[l])[i])])
        /\ \A i \in 1..Len(Warnings) :
              Warnings[i].line = l => Warnings[i].col <= Len(StripTerminator(file[l]))

-----------------------------------------------------------------------------
\* the table lists the contigs as the file does
TableInFileOrder ==
    \A i \in 1..Len(contigs) :
        contigs[i].name = LoadedName(i) /\ contigs[i].beginningLocation = ClaimedBegin(i)

TableInBeginOrder ==
    \A i, j \in 1..Len(contigs) :
        i < j => contigs[i].beginningLocation < contigs[j].beginningLocation

SpanEnd(i) == IF i < Len(contigs) THEN contigs[i + 1].beginningLocation ELSE Len(bases)

RECURSIVE WrittenLines(_)
WrittenLines(n) == IF n = 0 THEN << >> ELSE WrittenLines(n - 1) \o fasta[n].line

(* C20: AppendFASTAGenome writes one record per contig, in table order,    *)
(* with the prefix and the contig's name in its header and the bases from  *)
(* the contig's begin location to the next table entry's begin location,   *)
(* or to the base count for the last entry, as its sequence line. With the *)
(* table in strictly increasing begin-location order, or in file order,    *)
(* the spans are non-negative and together are exactly the bases from the  *)
(* first contig's begin location to the end, the leading padding block is  *)
(* not written, and each line is the contig's normalized sequence followed *)
(* by paddingSize 'n'. (That a span of a reordered table can end before it *)
(* begins is the case C20_Witness describes.)                              *)
C20_WrittenRecords ==
    pc = "written" =>
        /\ Len(fasta) = Len(contigs)
        /\ \A i, j \in 1..Len(fasta) : fasta[i].prefix = fasta[j].prefix
        /\ \A i \in 1..Len(fasta) :
              /\ fasta[i].name = contigs[i].name
              /\ fasta[i].size = SpanEnd(i) - contigs[i].beginningLocation
              /\ fasta[i].size >= 0 =>
                    fasta[i].line = SubSeq(bases, contigs[i].beginningLocation + 1, SpanEnd(i))
        /\ (TableInBeginOrder \/ TableInFileOrder) =>
              /\ \A i \in 1..Len(fasta) :
                    /\ fasta[i].size >= 0
                    /\ fasta[i].name = LoadedName(i)
                    /\ fasta[i].line = LoadedSequence(i) \o Repeat("n", chromosomePaddingSize)
              /\ contigs # << >> =>
                    /\ contigs[1].beginningLocation = chromosomePaddingSize
                    /\ WrittenLines(Len(fasta))
                          = SubSeq(bases, chromosomePaddingSize + 1, Len(bases))

C20_Witness ==
    /\ pc = "written"
    /\ chromosomePaddingSize >= 1
    /\ ~TableInBeginOrder
    /\ \E i \in 1..(Len(fasta) - 1) : fasta[i].size < 0
    /\ \E i \in 1..Len(fasta) : fasta[i].prefix = <<"p">>

====
